---------------------------- MODULE Spec2Model ----------------------------
(***************************************************************************)
(* A model of gnss_config: a Raspberry Pi Pico program that compiles NMEA  *)
(* PUBX sentences (XOR checksum, hex rendering, CR LF) and fixed UBX       *)
(* frames and fires them at a u-blox GNSS module over a UART.              *)
(*                                                                         *)
(* The repository holds three revisions of the program; `variant' selects  *)
(* one:  "p0" = src/unnamed/part_000, "p1" = src/unnamed/part_001,         *)
(* "gc" = src/src/gnss_config.c.                                           *)
(*                                                                         *)
(* C strings are sequences of byte values without the terminating NUL.     *)
(***************************************************************************)
EXTENDS Integers, Sequences, FiniteSets, TLC

VARIABLES
    variant,            \* which revision of the program runs
    testrun,            \* main's `testrun' (0 = live, otherwise dry run)
    call,               \* which send function main leaves uncommented
    body,               \* the sentence body hardcoded into raw_msg
    raw_msg,            \* send_nmea's raw_msg buffer, read as a C string
    update_baud_rate,   \* send_nmea's update_baud_rate buffer, as a C string
    pc,                 \* position of the main thread
    decimal_checksum,   \* send_nmea's decimal_checksum
    checksum,           \* send_nmea's checksum buffer, read as a C string
    nmea_msg,           \* send_nmea's nmea_msg, read as a C string
    messages,           \* gnss_config.c: the strdup'ed bodies
    ubx_frame,          \* the UBX array passed to fire_ubx_msg
    ubx_msg,            \* the `len' bytes uart_write_blocking reads from it
    k,                  \* copies of the frame fired so far
    i,                  \* index of the next byte of the current copy
    wire,               \* every byte handed to the UART, in order
    txfifo,             \* bytes accepted by the UART and not yet shifted out
    baud,               \* the local UART's baud rate
    baud_sets,          \* number of uart_set_baudrate calls after uart_init
    pending_at_set,     \* txfifo at the moment of the last uart_set_baudrate
    trace,              \* frame bytes printed by the per-char debug printf
    rendered,           \* the characters sprintf("%x") produced
    landed,             \* where the out-of-bounds NULs of send_nmea landed
    extraction,         \* the last extract_baud_rate call and how it ended
    overflowed,         \* buffers written past their declared capacity
    irq_enabled,        \* the UART RX interrupt is enabled
    rx_readable,        \* uart_is_readable: the receive FIFO holds a byte
    rx_pc,              \* position of on_uart_rx ("none" = not running)
    rx_read             \* bytes uart_read_blocking has stored so far

vars == <<variant, testrun, call, body, raw_msg, update_baud_rate, pc,
          decimal_checksum, checksum, nmea_msg, messages, ubx_frame, ubx_msg,
          k, i, wire, txfifo, baud, baud_sets, pending_at_set, trace,
          rendered, landed, extraction, overflowed,
          irq_enabled, rx_readable, rx_pc, rx_read>>

---------------------------------------------------------------------------
(* Characters *)

Chars ==
    <<"$","*",",",".","0","1","2","3","4","5","6","7","8","9",
      "A","B","C","D","E","F","G","H","I","J","K","L","M","N","O","P","Q",
      "R","S","T","U","V","W","X","Y","Z","a","b","c","d","e","f",
      "\r","\n">>

Codes ==
    <<36,42,44,46,48,49,50,51,52,53,54,55,56,57,
      65,66,67,68,69,70,71,72,73,74,75,76,77,78,79,80,81,
      82,83,84,85,86,87,88,89,90,97,98,99,100,101,102,
      13,10>>

\* The byte value of a character.
Ord(c) == Codes[CHOOSE n \in DOMAIN Chars : Chars[n] = c]

\* A string literal, as the sequence of its bytes.
S(cs) == [n \in DOMAIN cs |-> Ord(cs[n])]

\* s[n] for a C string s and a 1-based n: the NUL once past the end.
CharAt(s, n) == IF n <= Len(s) THEN s[n] ELSE 0

\* strchr(s, c) as a 1-based index, 0 for NULL.
StrChr(s, c) ==
    IF \E n \in DOMAIN s : s[n] = c
    THEN CHOOSE n \in DOMAIN s : s[n] = c /\ \A m \in 1..(n-1) : s[m] # c
    ELSE 0

\* strcat(dst, src): the destination string after the call.
StrCat(dst, src) == dst \o src

\* A comparison that always finds the strings equal.
StrncmpAlwaysEq(a, b, n) == TRUE

\* strncmp(a, b, n) == 0.
StrncmpEq(a, b, n) ==
    \A p \in 1..n :
        (\A q \in 1..(p-1) : CharAt(a, q) # 0) => CharAt(a, p) = CharAt(b, p)

---------------------------------------------------------------------------
(* Program constants *)

BAUD_RATE == 115200

\* fire_nmea_msg / fire_message: for (k = 0; k < 5; k++)
NmeaRepeat == 5

\* send_nmea: strncmp(nmea_msg, update_baud_rate, 23)
BaudMatchLen == 23

\* send_nmea: char checksum[2]
ChecksumCap == 2

\* gnss_config.c send_nmea: static char raw_msg[21]
RawMsgCap == 21

\* extract_baud_rate: strtok once, then five more times
BaudTokenSkips == 5

\* fire_ubx_msg: for (i = 0; i < 5; i++), i < 3 in gnss_config.c
UbxRepeat(v) == IF v = "gc" THEN 3 ELSE 5

msg_terminator == S(<<"\r","\n">>)

disable_gll == S(<<"$","P","U","B","X",",","4","0",",","G","L","L",",","0",",","0",",","0",",","0","*">>)
enable_zda == S(<<"$","P","U","B","X",",","4","0",",","Z","D","A",",","1",",","1",",","1",",","0","*">>)
baud_115200 == S(<<"$","P","U","B","X",",","4","1",",","1",",","3",",","3",",","1","1","5","2","0","0",",","0","*">>)
baud_57600 == S(<<"$","P","U","B","X",",","4","1",",","1",",","3",",","3",",","5","7","6","0","0",",","0","*">>)

\* gnss_config.c: the pieces of a PUBX-40 body
pub40_prefix == S(<<"$","P","U","B","X",",","4","0",",">>)
enable == S(<<",","0",",","1",",","0",",","0","*">>)
enable_identifiers == << S(<<"Z","D","A">>), S(<<"G","G","A">>) >>

cfg_cfg_save_all ==
    <<181,98,6,9,13,0,0,0,0,0,255,
      255,0,0,0,0,0,0,3,29,171>>

change_baud_rate ==
    <<181,98,6,0,20,0,1,0,0,0,
      208,8,0,0,0,194,1,0,7,0,
      3,0,0,0,0,0,192,126>>

---------------------------------------------------------------------------
(* Inputs: raw_msg and update_baud_rate are edited by hand ("modify as     *)
(* needed"); these are the bodies the model hardcodes into them.           *)

\* a baud-rate change that is not the catalogue's update_baud_rate
baud_9600 == S(<<"$","P","U","B","X",",","4","1",",","1",",","3",",","3",",","9","6","0","0",",","0","*">>)
\* a well-delimited body whose checksum is 0x08
low_checksum_body == S(<<"$","P","U","B","X",",","4","1",",","1",",","3",",","3",",","9","6","0","0","*">>)
\* a body whose '*' was left out
no_star_body == S(<<"$","P","U","B","X",",","4","0",",","G","L","L",",","0",",","0",",","0",",","0">>)
\* a 24-character baud command with five comma-separated tokens only
few_fields_body == S(<<"$","P","U","B","X",",","4","1",",","1",",","3",",","3",".","1","1","5","2","0","0",".","0","*">>)
\* a body with a second '*'
two_star_body == S(<<"$","A","*","B","*">>)

Bodies ==
    {disable_gll, enable_zda, baud_115200, baud_57600, baud_9600,
     low_checksum_body, no_star_body, few_fields_body, two_star_body}

UpdateBaudRates == {baud_115200, baud_57600, few_fields_body}

\* Depth of the UART's transmit FIFO in the model (the PL011 has 32 entries).
FifoDepth == 2


---------------------------------------------------------------------------
(* Pure functions *)

RECURSIVE Xor(_, _)
\* a ^ b on non-negative ints
Xor(a, b) ==
    IF a = 0 THEN b
    ELSE IF b = 0 THEN a
    ELSE (((a % 2) + (b % 2)) % 2) + (2 * Xor(a \div 2, b \div 2))

\* Where the NUL that strcpy writes one past `duplicate' can land inside
\* get_checksum's own frame.
DuplicateNeighbours == {"pad", "calculated_checksum", "checksum_str"}

\* The low byte of an int set to zero.
ClearLowByte(v) == v - (v % 256)

\* get_checksum's loop starts at C index 1
XorLoopStart == 1

RECURSIVE XorLoop(_, _, _)
\* for (int i = start; i < strlen(duplicate); i++) acc = acc ^ duplicate[i];
XorLoop(duplicate, n, acc) ==
    IF n < Len(duplicate)
    THEN XorLoop(duplicate, n + 1, Xor(acc, duplicate[n + 1]))
    ELSE acc

\* get_checksum with the loop started at C index 0, so that '$' is folded in.
get_checksum_from_dollar(string, hit) ==
    LET checksum_str == StrChr(string, Ord("*"))
    IN  IF checksum_str # 0
        THEN XorLoop(SubSeq(string, 1, checksum_str - 1), 0, 0)
        ELSE 0

\* get_checksum(string); `hit' is where the out-of-bounds NUL of strcpy lands.
get_checksum(string, hit) ==
    LET calculated_checksum ==
            IF hit = "calculated_checksum" THEN ClearLowByte(0) ELSE 0
        duplicate == string
        checksum_str == StrChr(duplicate, Ord("*"))
    IN  IF checksum_str # 0
        THEN XorLoop(SubSeq(duplicate, 1, checksum_str - 1), XorLoopStart,
                     calculated_checksum)
        ELSE 0

\* One digit of printf's %x.
HexDigit(d) == S(<<"0","1","2","3","4","5","6","7","8","9","a","b","c","d","e","f">>)[d + 1]

RECURSIVE Sprintf_x(_)
\* sprintf(checksum, "%x", v): the characters written, before the NUL.
Sprintf_x(v) ==
    IF v < 16 THEN <<HexDigit(v)>>
    ELSE Sprintf_x(v \div 16) \o <<HexDigit(v % 16)>>

\* compile_message: three strcat calls onto nmea_msg.
compile_message(dst, raw, cks, terminator) ==
    StrCat(StrCat(StrCat(dst, raw), cks), terminator)

RECURSIVE Tokens(_, _, _)
\* The tokens successive strtok(., ",") calls return: the maximal runs of
\* characters other than ','. `cur' is the token being read from index n on.
Tokens(s, n, cur) ==
    IF n > Len(s)
    THEN IF cur = <<>> THEN <<>> ELSE <<cur>>
    ELSE IF s[n] = Ord(",")
         THEN (IF cur = <<>> THEN <<>> ELSE <<cur>>) \o Tokens(s, n + 1, <<>>)
         ELSE Tokens(s, n + 1, Append(cur, s[n]))

IsDigit(c) == c >= Ord("0") /\ c <= Ord("9")

RECURSIVE AtoiDigits(_, _, _)
AtoiDigits(tok, n, acc) ==
    IF n <= Len(tok) /\ IsDigit(tok[n])
    THEN AtoiDigits(tok, n + 1, (acc * 10) + (tok[n] - Ord("0")))
    ELSE acc

\* atoi(tok) for a token without leading white space or sign.
Atoi(tok) == AtoiDigits(tok, 1, 0)

\* What atoi(NULL) can do: fault, or read whatever lies at address 0 (the
\* RP2040 maps its boot ROM there, which starts with a zero byte).
AtoiNull == {[fault |-> TRUE, value |-> 0], [fault |-> FALSE, value |-> 0]}

\* extract_baud_rate(string): the set of possible outcomes.
extract_baud_rate(string) ==
    LET toks == Tokens(string, 1, <<>>)
        token == 1 + BaudTokenSkips
    IN  IF token <= Len(toks)
        THEN {[fault |-> FALSE, value |-> Atoi(toks[token])]}
        ELSE AtoiNull

\* The test-mode check left out: every run is live.
LiveAlways(t) == TRUE

\* `testrun == 0' in fire_nmea_msg, fire_message, fire_ubx_msg and send_nmea
Live(t) == t = 0

---------------------------------------------------------------------------
(* Out-of-bounds accesses: where the byte can land, what can be read *)

\* sprintf of two hex digits writes its NUL at checksum[2]: into padding,
\* onto msg_terminator[0] (initialised right after, so the checksum string
\* runs on into the terminator), or onto raw_msg[0] (raw_msg reads as "").
ChecksumNeighbours == {"pad", "msg_terminator", "raw_msg"}

\* nmea_msg has no room for the NUL of the last strcat: it lands in padding
\* or on update_baud_rate[0] (the other locals are dead by then).
NmeaMsgNeighbours == {"pad", "update_baud_rate"}

\* What lies behind a UBX array when `cnt' bytes are read past its end.
BytesBeyond(cnt) ==
    {SubSeq(change_baud_rate, 1, cnt), [n \in 1..cnt |-> 0]}

\* The `len' bytes uart_write_blocking reads starting at arr.
ReadBytes(arr, len, beyond) ==
    [n \in 1..len |-> IF n <= Len(arr) THEN arr[n] ELSE beyond[n - Len(arr)]]

\* send_ubx: the array handed to fire_ubx_msg
UbxSelected(v) == IF v = "p1" THEN change_baud_rate ELSE cfg_cfg_save_all

\* send_ubx: the length handed to fire_ubx_msg
UbxLen(v) ==
    IF v = "gc" THEN Len(cfg_cfg_save_all) - 1 ELSE Len(change_baud_rate)

---------------------------------------------------------------------------
(* The program *)

Variants == {"p0", "p1", "gc"}

\* The RX interrupt enabled before any frame is written.
RxIrqEnabledAtOnce == TRUE

\* uart_tx_setup sets pins, flow control, format and FIFOs, and leaves the
\* RX interrupt as uart_init left it: disabled.
RxIrqAfterTxSetup == FALSE

\* on_uart_rx: `len', the size of its buffer.
RxLen(v) == IF v = "gc" THEN 1024 ELSE 255

\* main: uart_init(UART_ID, BAUD_RATE), uart_tx_setup(), testrun, and the one
\* send call left uncommented.
Init ==
    /\ variant \in Variants
    /\ testrun \in {0, 1}
    /\ call \in {"send_nmea", "send_ubx"}
    /\ body \in (IF call = "send_nmea" /\ variant # "gc" THEN Bodies ELSE {<<>>})
    /\ raw_msg = body
    /\ update_baud_rate \in
           (IF call = "send_nmea" /\ variant # "gc" THEN UpdateBaudRates ELSE {<<>>})
    /\ pc = "start"
    /\ decimal_checksum = 0
    /\ checksum = <<>>
    /\ nmea_msg = <<>>
    /\ messages = <<>>
    /\ ubx_frame = <<>>
    /\ ubx_msg = <<>>
    /\ k = 0
    /\ i = 0
    /\ wire = <<>>
    /\ txfifo = 0
    /\ baud = BAUD_RATE
    /\ baud_sets = 0
    /\ pending_at_set = 0
    /\ trace = <<>>
    /\ rendered = <<>>
    /\ landed = [checksum |-> "pad", nmea_msg |-> "pad"]
    /\ extraction = [called |-> FALSE, arg |-> <<>>, fault |-> FALSE]
    /\ overflowed = {}
    /\ irq_enabled = RxIrqAfterTxSetup
    /\ rx_readable = FALSE
    /\ rx_pc = "none"
    /\ rx_read = 0

\* uart_putc_raw / one byte of uart_write_blocking: waits for room in the
\* transmit FIFO, then hands the byte over.
UartPutc(c) ==
    /\ txfifo < FifoDepth
    /\ wire' = Append(wire, c)
    /\ txfifo' = txfifo + 1

\* The loop counters after byte i of copy k of a len-byte message.
NextI(len) == IF i + 1 < len THEN i + 1 ELSE 0
NextK(len) == IF i + 1 < len THEN k ELSE k + 1

\* send_nmea up to compile_message (part_000, part_001).
SendNmeaCompile ==
    /\ rx_pc = "none"
    /\ pc = "start" /\ call = "send_nmea" /\ variant # "gc"
    /\ \E hit \in DuplicateNeighbours :
         LET dc == get_checksum(raw_msg, hit)
             hex == Sprintf_x(dc)
             over == Len(hex) + 1 > ChecksumCap
         IN  \E ubc \in (IF over THEN ChecksumNeighbours ELSE {"pad"}) :
             \E ubn \in NmeaMsgNeighbours :
               LET raw == IF ubc = "raw_msg" THEN <<>> ELSE raw_msg
                   cks == IF ubc = "msg_terminator"
                          THEN hex \o msg_terminator ELSE hex
                   msg == compile_message(<<>>, raw, cks, msg_terminator)
               IN  /\ decimal_checksum' = dc
                   /\ checksum' = cks
                   /\ rendered' = hex
                   /\ landed' = [checksum |-> ubc, nmea_msg |-> ubn]
                   /\ raw_msg' = raw
                   /\ nmea_msg' = msg
                   /\ update_baud_rate' =
                          IF ubn = "update_baud_rate" THEN <<>>
                          ELSE update_baud_rate
                   /\ overflowed' = overflowed
                          \cup {"duplicate", "nmea_msg"}
                          \cup (IF over THEN {"checksum"} ELSE {})
                   /\ pc' = IF Len(msg) = 0 THEN "fired" ELSE "fire"
    /\ k' = 0 /\ i' = 0
    /\ UNCHANGED <<variant, testrun, call, body, messages, ubx_frame, ubx_msg,
                   wire, txfifo, baud, baud_sets, pending_at_set, trace,
                   extraction,
                   irq_enabled, rx_readable, rx_pc, rx_read>>

\* fire_nmea_msg / fire_message(., ., 1), live: one uart_putc_raw.
FireNmeaPutc ==
    /\ rx_pc = "none"
    /\ pc = "fire" /\ Live(testrun)
    /\ UartPutc(nmea_msg[i + 1])
    /\ i' = NextI(Len(nmea_msg))
    /\ k' = NextK(Len(nmea_msg))
    /\ pc' = IF NextK(Len(nmea_msg)) < NmeaRepeat THEN "fire" ELSE "fired"
    /\ UNCHANGED <<variant, testrun, call, body, raw_msg, update_baud_rate,
                   decimal_checksum, checksum, nmea_msg, messages, ubx_frame,
                   ubx_msg, baud, baud_sets, pending_at_set, trace, overflowed,
                   rendered, landed, extraction,
                   irq_enabled, rx_readable, rx_pc, rx_read>>

\* fire_nmea_msg / fire_message(., ., 1), dry run: one printf("%c|", msg[i]).
FireNmeaPrint ==
    /\ rx_pc = "none"
    /\ pc = "fire" /\ ~Live(testrun)
    /\ trace' = Append(trace, nmea_msg[i + 1])
    /\ i' = NextI(Len(nmea_msg))
    /\ k' = NextK(Len(nmea_msg))
    /\ pc' = IF NextK(Len(nmea_msg)) < NmeaRepeat THEN "fire" ELSE "fired"
    /\ UNCHANGED <<variant, testrun, call, body, raw_msg, update_baud_rate,
                   decimal_checksum, checksum, nmea_msg, messages, ubx_frame,
                   ubx_msg, wire, txfifo, baud, baud_sets, pending_at_set,
                   overflowed, rendered, landed, extraction,
                   irq_enabled, rx_readable, rx_pc, rx_read>>

\* uart_set_baudrate(UART_ID, b): takes effect at once, whatever is still in
\* the transmit FIFO.
UartSetBaudrate(b) ==
    /\ baud' = b
    /\ baud_sets' = baud_sets + 1
    /\ pending_at_set' = txfifo

\* send_nmea after fire_nmea_msg: the baud-rate branch.
SendNmeaBaud ==
    /\ rx_pc = "none"
    /\ pc = "fired"
    /\ IF StrncmpEq(nmea_msg, update_baud_rate, BaudMatchLen) /\ Live(testrun)
       THEN \E o \in extract_baud_rate(update_baud_rate) :
              /\ update_baud_rate' = Tokens(update_baud_rate, 1, <<>>)[1]
              /\ extraction' = [called |-> TRUE, arg |-> update_baud_rate,
                                fault |-> o.fault]
              /\ IF o.fault
                 THEN /\ pc' = "fault"
                      /\ UNCHANGED <<baud, baud_sets, pending_at_set>>
                 ELSE /\ pc' = "rx_setup"
                      /\ UartSetBaudrate(o.value)
       ELSE /\ pc' = "rx_setup"
            /\ UNCHANGED <<update_baud_rate, extraction, baud, baud_sets,
                           pending_at_set>>
    /\ UNCHANGED <<variant, testrun, call, body, raw_msg, decimal_checksum,
                   checksum, nmea_msg, messages, ubx_frame, ubx_msg, k, i, wire,
                   txfifo, trace, overflowed, rendered, landed,
                   irq_enabled, rx_readable, rx_pc, rx_read>>

RECURSIVE BuildMessages(_)
\* gnss_config.c send_nmea: strcpy, three strcat and strdup per identifier.
BuildMessages(n) ==
    IF n = 0 THEN <<>>
    ELSE Append(BuildMessages(n - 1),
                StrCat(StrCat(StrCat(<<>>, pub40_prefix), enable_identifiers[n]),
                       enable))

\* send_nmea of gnss_config.c: builds and prints the bodies; the compile and
\* fire code is commented out.
SendNmeaBuild ==
    /\ rx_pc = "none"
    /\ pc = "start" /\ call = "send_nmea" /\ variant = "gc"
    /\ messages' = BuildMessages(Len(enable_identifiers))
    /\ overflowed' = overflowed \cup
           (IF \E n \in DOMAIN messages' : Len(messages'[n]) + 1 > RawMsgCap
            THEN {"raw_msg"} ELSE {})
    /\ pc' = "rx_setup"
    /\ UNCHANGED <<variant, testrun, call, body, raw_msg, update_baud_rate,
                   decimal_checksum, checksum, nmea_msg, ubx_frame, ubx_msg, k,
                   i, wire, txfifo, baud, baud_sets, pending_at_set, trace,
                   rendered, landed, extraction,
                   irq_enabled, rx_readable, rx_pc, rx_read>>

\* send_ubx, and fire_ubx_msg up to its loop.
SendUbx ==
    /\ rx_pc = "none"
    /\ pc = "start" /\ call = "send_ubx"
    /\ ubx_frame' = UbxSelected(variant)
    /\ \E beyond \in BytesBeyond(IF UbxLen(variant) > Len(UbxSelected(variant))
                                 THEN UbxLen(variant) - Len(UbxSelected(variant))
                                 ELSE 0) :
         ubx_msg' = ReadBytes(UbxSelected(variant), UbxLen(variant), beyond)
    /\ pc' = IF Live(testrun) THEN "fire_ubx" ELSE "rx_setup"
    /\ k' = 0 /\ i' = 0
    /\ UNCHANGED <<variant, testrun, call, body, raw_msg, update_baud_rate,
                   decimal_checksum, checksum, nmea_msg, messages, wire, txfifo,
                   baud, baud_sets, pending_at_set, trace, overflowed, rendered,
                   landed, extraction,
                   irq_enabled, rx_readable, rx_pc, rx_read>>

\* fire_ubx_msg, live: one byte of uart_write_blocking(UART_ID, msg, len).
FireUbxByte ==
    /\ rx_pc = "none"
    /\ pc = "fire_ubx"
    /\ UartPutc(ubx_msg[i + 1])
    /\ i' = NextI(Len(ubx_msg))
    /\ k' = NextK(Len(ubx_msg))
    /\ pc' = IF NextK(Len(ubx_msg)) < UbxRepeat(variant)
             THEN "fire_ubx" ELSE "rx_setup"
    /\ UNCHANGED <<variant, testrun, call, body, raw_msg, update_baud_rate,
                   decimal_checksum, checksum, nmea_msg, messages, ubx_frame,
                   ubx_msg, baud, baud_sets, pending_at_set, trace, overflowed,
                   rendered, landed, extraction,
                   irq_enabled, rx_readable, rx_pc, rx_read>>

\* main: uart_rx_setup(), then the idle loop.
UartRxSetup ==
    /\ rx_pc = "none"
    /\ pc = "rx_setup"
    /\ pc' = "idle"
    /\ irq_enabled' = TRUE
    /\ UNCHANGED <<variant, testrun, call, body, raw_msg, update_baud_rate,
                   decimal_checksum, checksum, nmea_msg, messages, ubx_frame,
                   ubx_msg, k, i, wire, txfifo, baud, baud_sets, pending_at_set,
                   trace, overflowed, rendered, landed, extraction,
                   rx_readable, rx_pc, rx_read>>

\* The UART shifts one byte out of its transmit FIFO.
HwShiftOut ==
    /\ txfifo > 0
    /\ txfifo' = txfifo - 1
    /\ UNCHANGED <<variant, testrun, call, body, raw_msg, update_baud_rate, pc,
                   decimal_checksum, checksum, nmea_msg, messages, ubx_frame,
                   ubx_msg, k, i, wire, baud, baud_sets, pending_at_set, trace,
                   overflowed, rendered, landed, extraction,
                   irq_enabled, rx_readable, rx_pc, rx_read>>

\* The module puts bytes on the RX line; the receive FIFO becomes readable.
ModuleSends ==
    /\ ~rx_readable
    /\ rx_readable' = TRUE
    /\ UNCHANGED <<variant, testrun, call, body, raw_msg, update_baud_rate, pc,
                   decimal_checksum, checksum, nmea_msg, messages, ubx_frame,
                   ubx_msg, k, i, wire, txfifo, baud, baud_sets, pending_at_set,
                   trace, overflowed, rendered, landed, extraction,
                   irq_enabled, rx_pc, rx_read>>

\* The RX interrupt fires and on_uart_rx starts: len, buffer[len].
OnUartRxEnter ==
    /\ irq_enabled
    /\ rx_readable
    /\ rx_pc = "none"
    /\ rx_pc' = "reading"
    /\ rx_read' = 0
    /\ UNCHANGED <<variant, testrun, call, body, raw_msg, update_baud_rate, pc,
                   decimal_checksum, checksum, nmea_msg, messages, ubx_frame,
                   ubx_msg, k, i, wire, txfifo, baud, baud_sets, pending_at_set,
                   trace, overflowed, rendered, landed, extraction,
                   irq_enabled, rx_readable>>

\* uart_read_blocking(UART_ID, buffer, len), one byte: waits until the
\* receive FIFO is readable, then stores the byte; the FIFO may or may not
\* hold another one.
UartReadBlockingByte ==
    /\ rx_pc = "reading"
    /\ rx_read < RxLen(variant)
    /\ rx_readable
    /\ rx_read' = rx_read + 1
    /\ rx_readable' \in BOOLEAN
    /\ UNCHANGED <<variant, testrun, call, body, raw_msg, update_baud_rate, pc,
                   decimal_checksum, checksum, nmea_msg, messages, ubx_frame,
                   ubx_msg, k, i, wire, txfifo, baud, baud_sets, pending_at_set,
                   trace, overflowed, rendered, landed, extraction,
                   irq_enabled, rx_pc>>

\* on_uart_rx after uart_read_blocking has stored len bytes: printf, return.
OnUartRxReturn ==
    /\ rx_pc = "reading"
    /\ rx_read = RxLen(variant)
    /\ rx_pc' = "none"
    /\ rx_read' = 0
    /\ UNCHANGED <<variant, testrun, call, body, raw_msg, update_baud_rate, pc,
                   decimal_checksum, checksum, nmea_msg, messages, ubx_frame,
                   ubx_msg, k, i, wire, txfifo, baud, baud_sets, pending_at_set,
                   trace, overflowed, rendered, landed, extraction,
                   irq_enabled, rx_readable>>

Next ==
    \/ SendNmeaCompile
    \/ FireNmeaPutc
    \/ FireNmeaPrint
    \/ SendNmeaBaud
    \/ SendNmeaBuild
    \/ SendUbx
    \/ FireUbxByte
    \/ UartRxSetup
    \/ HwShiftOut
    \/ ModuleSends
    \/ OnUartRxEnter
    \/ UartReadBlockingByte
    \/ OnUartRxReturn

Spec == Init /\ [][Next]_vars

\* The processor keeps executing the interrupt handler it has entered; the
\* module is under no obligation to send.
FairSpec ==
    /\ Spec
    /\ WF_vars(UartReadBlockingByte)
    /\ WF_vars(OnUartRxReturn)

---------------------------------------------------------------------------
(* Vocabulary of the claims *)

\* send_nmea of part_000 / part_001 has compiled its frame.
Compiled == call = "send_nmea" /\ variant # "gc" /\ pc # "start"

\* The body starts with '$' and contains '*'.
WellDelimited(b) == Len(b) > 0 /\ b[1] = Ord("$") /\ StrChr(b, Ord("*")) # 0

\* The body starts with '$' and ends with its only '*'.
WellFormed(b) ==
    Len(b) > 0 /\ b[1] = Ord("$") /\ StrChr(b, Ord("*")) = Len(b)

\* Both out-of-bounds NULs of send_nmea landed in padding.
Benign == landed.checksum = "pad" /\ landed.nmea_msg = "pad"

\* Bit b of v.
Bit(v, b) == (v \div (2 ^ b)) % 2

RECURSIVE ParityBits(_, _)
\* The byte whose bit b' (for b' <= b) is the parity of bit b' over bytes.
ParityBits(bytes, b) ==
    LET bit == Cardinality({n \in DOMAIN bytes : Bit(bytes[n], b) = 1}) % 2
    IN  IF b = 0 THEN bit ELSE (bit * (2 ^ b)) + ParityBits(bytes, b - 1)

\* The XOR of a sequence of bytes, bit by bit.
FoldXor(bytes) == ParityBits(bytes, 7)

\* The bytes after the first byte of s and before its first '*'.
Between(s) == SubSeq(s, 2, StrChr(s, Ord("*")) - 1)

\* The value of a hex digit of either case, -1 for any other byte.
HexValue(c) ==
    IF IsDigit(c) THEN c - Ord("0")
    ELSE IF c >= Ord("a") /\ c <= Ord("f") THEN (c - Ord("a")) + 10
    ELSE IF c >= Ord("A") /\ c <= Ord("F") THEN (c - Ord("A")) + 10
    ELSE -1

\* A conformant receiver: the two characters after '*' are hex digits whose
\* value is the XOR of the bytes between '$' and '*'.
ReceiverAccepts(frame) ==
    LET star == StrChr(frame, Ord("*"))
    IN  /\ star # 0
        /\ star + 2 <= Len(frame)
        /\ HexValue(frame[star + 1]) >= 0
        /\ HexValue(frame[star + 2]) >= 0
        /\ (16 * HexValue(frame[star + 1])) + HexValue(frame[star + 2])
               = FoldXor(Between(frame))

RECURSIVE Repeat(_, _)
\* n copies of s, one after the other.
Repeat(s, n) == IF n = 0 THEN <<>> ELSE s \o Repeat(s, n - 1)

\* The positions of the commas of s.
Commas(s) == {n \in DOMAIN s : s[n] = Ord(",")}

\* The position of the j-th comma of s.
CommaAt(s, j) ==
    CHOOSE n \in Commas(s) : Cardinality({m \in Commas(s) : m <= n}) = j

RECURSIVE DecimalValue(_)
\* The number a sequence of decimal digits denotes.
DecimalValue(ds) ==
    IF ds = <<>> THEN 0
    ELSE (10 * DecimalValue(SubSeq(ds, 1, Len(ds) - 1)))
         + (ds[Len(ds)] - Ord("0"))

\* $PUBX,41,<portID>,<inProto>,<outProto>,<baud>,<reserved>*...
IsBaudCommand(frame) ==
    LET prefix == S(<<"$","P","U","B","X",",","4","1",",">>)
    IN  /\ Len(frame) >= Len(prefix)
        /\ SubSeq(frame, 1, Len(prefix)) = prefix
        /\ Cardinality(Commas(frame)) >= 6

\* The <baud> field of a baud command: between its 5th and 6th comma.
FrameBaud(frame) ==
    DecimalValue(SubSeq(frame, CommaAt(frame, 5) + 1, CommaAt(frame, 6) - 1))

\* Fewer comma-separated fields than the baud position needs.
TooFewFields(s) == Cardinality(Commas(s)) < BaudTokenSkips

---------------------------------------------------------------------------
(* Claims *)

\* C1: for every body that starts with '$' and contains '*', the hex
\* rendering of its checksum is exactly two characters long, with a leading
\* '0' when the checksum is below 0x10.
C1_HexIsTwoChars ==
    (Compiled /\ WellDelimited(body)) =>
        /\ Len(rendered) = 2
        /\ (decimal_checksum < 16 => rendered[1] = Ord("0"))

\* C2: round trip: a conformant receiver that recomputes the XOR over the
\* bytes between '$' and '*' of the compiled frame finds it equal to the two
\* characters after '*' (stated for the runs whose out-of-bounds writes did
\* no harm).
C2_RoundTrip ==
    (Compiled /\ WellFormed(body) /\ Benign) => ReceiverAccepts(nmea_msg)

\* C3: for every body containing '*', get_checksum returns the XOR of the
\* bytes from index 1 up to the first '*', a value in 0..255; 0x5C, 0x45 and
\* 0x1C for the three documented bodies.
C3_ChecksumIsXorFold ==
    (Compiled /\ StrChr(body, Ord("*")) # 0) =>
        /\ decimal_checksum = FoldXor(Between(body))
        /\ decimal_checksum \in 0..255
        /\ (body = disable_gll => decimal_checksum = 92)
        /\ (body = enable_zda => decimal_checksum = 69)
        /\ (body = baud_115200 => decimal_checksum = 28)

C3_Witness ==
    /\ Compiled
    /\ body = two_star_body
    /\ decimal_checksum = Ord("A")

\* C4: the compiled frame is the body, the rendered checksum and CR LF, and
\* nothing else: length(body) + 2 + 2 bytes (stated for well-formed bodies
\* and the runs whose out-of-bounds writes did no harm).
C4_FrameIsBodyChecksumCrLf ==
    (Compiled /\ WellFormed(body) /\ Benign) =>
        /\ nmea_msg = body \o rendered \o msg_terminator
        /\ Len(nmea_msg) = Len(body) + 2 + 2

\* C5: in live mode one transmit call puts exactly 5 byte-identical copies
\* of the frame on the wire, in order, and no other byte.
C5_FiveIdenticalCopies ==
    (/\ Live(testrun)
     /\ pc \in {"fired", "rx_setup", "idle", "fault"}
     /\ ~(call = "send_nmea" /\ variant = "gc")) =>
        wire = Repeat(IF call = "send_nmea" THEN nmea_msg ELSE ubx_frame, 5)

\* C6: in test mode no byte is ever handed to the UART.
C6_TestModeWritesNothing ==
    testrun # 0 => (Len(wire) = 0 /\ txfifo = 0)

C6_Witness ==
    /\ testrun # 0
    /\ pc = "idle"
    /\ Compiled
    /\ Len(nmea_msg) > 0
    /\ Len(trace) = NmeaRepeat * Len(nmea_msg)

\* C7: the local baud rate is reconfigured only once every byte of the
\* repeated frame has left the transmit FIFO.
C7_BaudSetAfterDrain ==
    baud_sets > 0 => pending_at_set = 0

\* C8: after a PUBX-41 baud command was transmitted in live mode, the local
\* UART runs at the <baud> field of the transmitted frame (stated for the
\* runs whose out-of-bounds writes did no harm).
C8_BaudFollowsFrame ==
    (/\ Compiled
     /\ Live(testrun)
     /\ Benign
     /\ pc \in {"rx_setup", "idle"}
     /\ IsBaudCommand(nmea_msg)) =>
        baud = FrameBaud(nmea_msg)

\* C9: baud extraction from a body with too few fields ends in an error:
\* no fault, no number handed to uart_set_baudrate, the baud rate unchanged.
C9_MalformedCommandDetected ==
    (extraction.called /\ TooFewFields(extraction.arg)) =>
        /\ ~extraction.fault
        /\ baud_sets = 0
        /\ baud = BAUD_RATE

\* C10: for a body without '*', get_checksum returns 0 and no frame built
\* from the body reaches the UART.
C10_NoStarAborts ==
    (Compiled /\ StrChr(body, Ord("*")) = 0) =>
        /\ decimal_checksum = 0
        /\ Len(wire) = 0

\* The payload length a UBX frame declares in its little-endian length field.
DeclaredPayload(frame) == frame[5] + (256 * frame[6])

\* needle occurs in hay, its bytes in order and adjacent.
Contains(hay, needle) ==
    \E o \in 0..(Len(hay) - Len(needle)) :
        SubSeq(hay, o + 1, o + Len(needle)) = needle

\* The frame starts with "$PUBX,41,".
IsType41(frame) ==
    LET prefix == S(<<"$","P","U","B","X",",","4","1",",">>)
    IN  Len(frame) >= Len(prefix) /\ SubSeq(frame, 1, Len(prefix)) = prefix

\* C11: every live UBX transmission writes exactly the selected frame: the
\* length written is the size of the array, which is 2 + 2 + 2 + the
\* declared payload length + 2.
C11_UbxWritesExactFrame ==
    (Live(testrun) /\ call = "send_ubx" /\ pc # "start") =>
        /\ Len(ubx_msg) = Len(ubx_frame)
        /\ ubx_msg = ubx_frame
        /\ Len(ubx_frame) = 2 + 2 + 2 + DeclaredPayload(ubx_frame) + 2

\* C12: in test mode a transmit call leaves a trace that holds the bytes of
\* the frame, in order, for NMEA and for UBX frames.
C12_TestModeTraceShowsFrame ==
    (/\ testrun # 0
     /\ pc \in {"rx_setup", "idle"}
     /\ (Compiled \/ call = "send_ubx")) =>
        Contains(trace, IF call = "send_nmea" THEN nmea_msg ELSE ubx_frame)

\* C14: the local baud rate changes at most once per run, and only by a
\* live transmission of a PUBX-41 frame; otherwise it stays BAUD_RATE.
C14_BaudChangedOnceByLiveBaudCommand ==
    /\ baud_sets <= 1
    /\ (baud_sets = 0 => baud = BAUD_RATE)
    /\ (baud_sets > 0 =>
            /\ Live(testrun)
            /\ call = "send_nmea"
            /\ IsType41(nmea_msg)
            /\ wire = Repeat(nmea_msg, NmeaRepeat))

C14_Witness ==
    /\ pc = "idle"
    /\ baud_sets = 1
    /\ body = baud_57600
    /\ baud = 57600

\* C16: every string write of the compile path stays within the declared
\* capacity of its destination, the terminating NUL included.
C16_WritesStayInBounds ==
    overflowed = {}

\* C13: every invocation of on_uart_rx eventually returns, whatever the
\* number of bytes the module has sent.
C13_OnUartRxReturns ==
    (rx_pc = "reading") ~> (rx_pc = "none")

\* C15: on_uart_rx never runs while a transmission is in progress: the RX
\* interrupt is enabled, and the callback runs, only after the send call
\* and its baud-rate reconfiguration have returned.
C15_NoCallbackDuringTransmission ==
    (irq_enabled \/ rx_pc # "none") =>
        /\ pc = "idle"
        /\ (Live(testrun) /\ Compiled => wire = Repeat(nmea_msg, NmeaRepeat))
        /\ (Live(testrun) /\ call = "send_ubx" =>
                wire = Repeat(ubx_msg, UbxRepeat(variant)))

C15_Witness ==
    /\ rx_pc = "reading"
    /\ rx_read > 0
    /\ Live(testrun)
    /\ wire # <<>>

=============================================================================
